---- MODULE Spec2Model ----
(***************************************************************************)
(* Model of the two stateful pages of the library recommendation client:   *)
(* the signup / email-verification controller (src/src/pages/Signup.tsx)   *)
(* and the recommendation request panel                                    *)
(* (src/src/pages/Recommendations.tsx).                                    *)
(*                                                                         *)
(* Each async handler is split at its awaits: the synchronous segment up   *)
(* to the first await is one action (the user event), and every            *)
(* continuation after an await is one action (the response of the call).   *)
(* State setters are modelled as assignments to the state variables; a     *)
(* continuation reads the values its closure captured when the handler     *)
(* was invoked, which are carried in the record of the call in flight.     *)
(* Text is a sequence of one-character strings, so that trimming and the   *)
(* syntax checks are computed on the characters.                           *)
(***************************************************************************)
EXTENDS Integers, Sequences, FiniteSets, TLC

VARIABLES
    page,               \* the page rendered: "signup", "recommendations", "login"
    step,               \* Signup.tsx:32
    name,               \* Signup.tsx:34
    email,              \* Signup.tsx:35
    password,           \* Signup.tsx:36
    confirmPassword,    \* Signup.tsx:37
    verificationCode,   \* Signup.tsx:38
    errors,             \* Signup.tsx:40
    isLoading,          \* Signup.tsx:41
    resendStatus,       \* Signup.tsx:42
    query,              \* Recommendations.tsx:11
    recommendationText, \* Recommendations.tsx:12
    recLoading,         \* Recommendations.tsx:13 (isLoading of the panel)
    inflight,           \* the network calls dispatched and not yet settled
    issued,             \* number of network calls dispatched so far
    navigations,        \* destinations handed to navigate(), in order
    apiErrors,          \* number of invocations of handleApiError
    lastApiError,       \* the value last handed to handleApiError
    hist,               \* what has been dispatched (history), see NoHistory
    ev                  \* the handler segment that ran last (history)

vars == <<page, step, name, email, password, confirmPassword, verificationCode,
          errors, isLoading, resendStatus, query, recommendationText, recLoading,
          inflight, issued, navigations, apiErrors, lastApiError, hist, ev>>

signupVars == <<step, name, email, password, confirmPassword, verificationCode,
                errors, isLoading, resendStatus>>

draftVars == <<name, email, password, confirmPassword>>

recVars == <<query, recommendationText, recLoading>>

-----------------------------------------------------------------------------
(* Bounds *)

MaxCalls == 3

-----------------------------------------------------------------------------
(* Text *)

Whitespace == {" ", "\t", "\n"}

UpperCase == {"A", "B", "C", "D", "E", "F", "G", "H", "I", "J", "K", "L", "M",
              "N", "O", "P", "Q", "R", "S", "T", "U", "V", "W", "X", "Y", "Z"}

LowerCase == {"a", "b", "c", "d", "e", "f", "g", "h", "i", "j", "k", "l", "m",
              "n", "o", "p", "q", "r", "s", "t", "u", "v", "w", "x", "y", "z"}

Digits == {"0", "1", "2", "3", "4", "5", "6", "7", "8", "9"}

EmptyText == << >>

RECURSIVE TrimStart(_)
TrimStart(s) ==
    IF s # << >> /\ Head(s) \in Whitespace THEN TrimStart(Tail(s)) ELSE s

RECURSIVE TrimEnd(_)
TrimEnd(s) ==
    IF s # << >> /\ s[Len(s)] \in Whitespace
    THEN TrimEnd(SubSeq(s, 1, Len(s) - 1))
    ELSE s

\* String.prototype.trim
Trim(s) == TrimEnd(TrimStart(s))

\* The values the user types into the inputs.  Every input starts empty
\* (Init), so the empty text is covered without being typed.
Names == {<<" ">>, <<"A", "l">>}

Emails == {<<"a", "@", "b">>, <<"a", "@", "b", ".", "c", "o", "m">>}

Passwords == {<<"a", "b", "c", "1", "2", "3", "4", "5">>,
              <<"A", "b", "c", "1", "2", "3", "4", "5">>}

Codes == {EmptyText, <<"1", "2">>}

Queries == {EmptyText, <<" ", " ">>, <<"s", "f">>}

Results == {<<"R", "1">>, <<"R", "2">>}

-----------------------------------------------------------------------------
(* Validation utilities (@/utils/validation) *)

MinPasswordLength == 8

validateRequired(s) == Trim(s) # EmptyText

\* local@domain.tld, no whitespace and no further "@"
validateEmail(s) ==
    \E i \in 1..Len(s) :
        /\ s[i] = "@"
        /\ i > 1
        /\ \A k \in 1..Len(s) : s[k] \notin Whitespace /\ (s[k] = "@" => k = i)
        /\ \E j \in (i + 2)..(Len(s) - 1) : s[j] = "."

validatePassword(s) ==
    /\ Len(s) >= MinPasswordLength
    /\ \E k \in 1..Len(s) : s[k] \in UpperCase
    /\ \E k \in 1..Len(s) : s[k] \in LowerCase
    /\ \E k \in 1..Len(s) : s[k] \in Digits

-----------------------------------------------------------------------------
(* Values *)

\* Values a rejected call can be rejected with: the result of typeof, whether
\* the value is null, whether it has a name property, and that property.
ExistsError ==
    [typeof |-> "object", isNull |-> FALSE, hasName |-> TRUE,
     name |-> "UsernameExistsException"]

OtherError ==
    [typeof |-> "object", isNull |-> FALSE, hasName |-> TRUE,
     name |-> "LimitExceededException"]

NamelessError ==
    [typeof |-> "object", isNull |-> FALSE, hasName |-> FALSE, name |-> ""]

NullError ==
    [typeof |-> "object", isNull |-> TRUE, hasName |-> FALSE, name |-> ""]

StringError ==
    [typeof |-> "string", isNull |-> FALSE, hasName |-> FALSE, name |-> ""]

NoError ==
    [typeof |-> "undefined", isNull |-> FALSE, hasName |-> FALSE, name |-> ""]

SignupErrors == {ExistsError, OtherError, NamelessError, NullError, StringError}

VerifyErrors == {OtherError}

ResendErrors == {OtherError}

RecommendationErrors == {OtherError, StringError}

\* ResendStatus | null
NoStatus == [message |-> "", type |-> "null"]

AutoResendSuccess ==
    [message |-> "A new verification code has been sent to your email.",
     type |-> "success"]

ResendSuccess == [message |-> "New code sent successfully!", type |-> "success"]

ResendFailure ==
    [message |-> "Cannot send multiple emails in a short time. Please try again later.",
     type |-> "error"]

\* ErrorState: a map from the fields that have a message to their message.
NoErrors == [f \in {} |-> ""]

OneError(f, msg) == [g \in {f} |-> msg]

\* A network call in flight, with what the handler's closure captured.
Call(id, kind, mail, code, q, prev) ==
    [id |-> id, kind |-> kind, email |-> mail, code |-> code, query |-> q,
     prevText |-> prev]

NoCall == Call(0, "none", EmptyText, EmptyText, EmptyText, EmptyText)

Event(op, call, err) == [op |-> op, call |-> call, err |-> err]

InFlight(kind) == {c \in inflight : c.kind = kind}

\* History of what was dispatched: the email handed to the signup call that
\* moved the flow to the verification step, the number of the resendCode call
\* dispatched last (automatic or user-triggered), and what that call reports:
\* Pending while in flight, then the status its own completion sets.
NoHistory == [signupEmail |-> EmptyText, resendId |-> 0, resendShows |-> NoStatus]

Pending == [message |-> "", type |-> "pending"]

histMoved(c) == hist' = [hist EXCEPT !.signupEmail = c.email]

histMovedWithResend(c, id) ==
    hist' = [signupEmail |-> c.email, resendId |-> id, resendShows |-> Pending]

histResendStarted(id) ==
    hist' = [hist EXCEPT !.resendId = id, !.resendShows = Pending]

histResendSettled(c, shows) ==
    hist' = IF hist.resendId = c.id THEN [hist EXCEPT !.resendShows = shows] ELSE hist

-----------------------------------------------------------------------------
(* Signup.tsx: validation *)

nameError(n) ==
    IF ~validateRequired(n) THEN OneError("name", "Name is required") ELSE NoErrors

emailError(e) ==
    IF ~validateRequired(e) THEN OneError("email", "Email is required")
    ELSE IF ~validateEmail(e) THEN OneError("email", "Invalid email format")
    ELSE NoErrors

passwordError(p) ==
    IF ~validateRequired(p) THEN OneError("password", "Password is required")
    ELSE IF ~validatePassword(p)
    THEN OneError("password",
           "Password must be at least 8 characters with uppercase, lowercase, and number")
    ELSE NoErrors

confirmPasswordError(p, c) ==
    IF p # c THEN OneError("confirmPassword", "Passwords do not match") ELSE NoErrors

\* Mutant: validate() stops at the first field that fails.
validate_failFast(n, e, p, c) ==
    IF nameError(n) # NoErrors THEN nameError(n)
    ELSE IF emailError(e) # NoErrors THEN emailError(e)
    ELSE IF passwordError(p) # NoErrors THEN passwordError(p)
    ELSE confirmPasswordError(p, c)

\* Mutant: validate() without the confirmPassword check.
validate_noConfirm(n, e, p, c) ==
    nameError(n) @@ emailError(e) @@ passwordError(p)

\* newErrors of validate(): the four checks, each adding its own key.
validate(n, e, p, c) ==
    nameError(n) @@ emailError(e) @@ passwordError(p) @@ confirmPasswordError(p, c)

\* Mutant: the catch takes every non-null object for the already-exists error.
IsUsernameExists_anyObject(err) ==
    /\ err.typeof = "object"
    /\ ~err.isNull

\* (err as {name?: string}).name === 'UsernameExistsException', guarded
IsUsernameExists(err) ==
    /\ err.typeof = "object"
    /\ ~err.isNull
    /\ err.hasName
    /\ err.name = "UsernameExistsException"

-----------------------------------------------------------------------------
(* Initial state: useState initial values *)

Init ==
    /\ page \in {"signup", "recommendations"}
    /\ step = "signup"
    /\ name = EmptyText
    /\ email = EmptyText
    /\ password = EmptyText
    /\ confirmPassword = EmptyText
    /\ verificationCode = EmptyText
    /\ errors = NoErrors
    /\ isLoading = FALSE
    /\ resendStatus = NoStatus
    /\ query = EmptyText
    /\ recommendationText = EmptyText
    /\ recLoading = FALSE
    /\ inflight = {}
    /\ issued = 0
    /\ navigations = << >>
    /\ apiErrors = 0
    /\ lastApiError = NoError
    /\ hist = NoHistory
    /\ ev = Event("init", NoCall, NoError)

\* The signup component is rendered, with the form of the given step.
SignupForm(s) == page = "signup" /\ step = s

\* handleApiError(err): the shared error reporting utility is invoked.
handleApiError(err) ==
    /\ apiErrors' = apiErrors + 1
    /\ lastApiError' = err

noApiError == UNCHANGED <<apiErrors, lastApiError>>

\* navigate(dest): the router leaves the signup page.
navigate(dest) ==
    /\ navigations' = Append(navigations, dest)
    /\ page' = "login"

-----------------------------------------------------------------------------
(* Signup.tsx: the inputs of the two forms *)

setName(v) ==
    /\ SignupForm("signup")
    /\ name' = v
    /\ ev' = Event("input", NoCall, NoError)
    /\ UNCHANGED hist
    /\ UNCHANGED <<page, step, email, password, confirmPassword, verificationCode,
                   errors, isLoading, resendStatus, recVars, inflight, issued,
                   navigations, apiErrors, lastApiError>>

setEmail(v) ==
    /\ SignupForm("signup")
    /\ email' = v
    /\ ev' = Event("input", NoCall, NoError)
    /\ UNCHANGED hist
    /\ UNCHANGED <<page, step, name, password, confirmPassword, verificationCode,
                   errors, isLoading, resendStatus, recVars, inflight, issued,
                   navigations, apiErrors, lastApiError>>

setPassword(v) ==
    /\ SignupForm("signup")
    /\ password' = v
    /\ ev' = Event("input", NoCall, NoError)
    /\ UNCHANGED hist
    /\ UNCHANGED <<page, step, name, email, confirmPassword, verificationCode,
                   errors, isLoading, resendStatus, recVars, inflight, issued,
                   navigations, apiErrors, lastApiError>>

setConfirmPassword(v) ==
    /\ SignupForm("signup")
    /\ confirmPassword' = v
    /\ ev' = Event("input", NoCall, NoError)
    /\ UNCHANGED hist
    /\ UNCHANGED <<page, step, name, email, password, verificationCode,
                   errors, isLoading, resendStatus, recVars, inflight, issued,
                   navigations, apiErrors, lastApiError>>

setVerificationCode(v) ==
    /\ SignupForm("verification")
    /\ verificationCode' = v
    /\ ev' = Event("input", NoCall, NoError)
    /\ UNCHANGED hist
    /\ UNCHANGED <<page, step, draftVars, errors, isLoading, resendStatus, recVars,
                   inflight, issued, navigations, apiErrors, lastApiError>>

\* The "Sign in" link under the signup form.
LinkToLogin ==
    /\ SignupForm("signup")
    /\ page' = "login"
    /\ ev' = Event("LinkToLogin", NoCall, NoError)
    /\ UNCHANGED hist
    /\ UNCHANGED <<signupVars, recVars, inflight, issued, navigations, apiErrors,
                   lastApiError>>

-----------------------------------------------------------------------------
(* Signup.tsx: handleSignupSubmit *)

\* Lines 78-86: validate, then dispatch signup(email, password, name).
handleSignupSubmit ==
    /\ SignupForm("signup")
    /\ ~isLoading
    /\ LET newErrors == validate(name, email, password, confirmPassword)
           call == Call(issued + 1, "signup", email, EmptyText, EmptyText, EmptyText)
       IN  /\ errors' = newErrors
           /\ IF DOMAIN newErrors # {}
              THEN /\ ev' = Event("handleSignupSubmit", NoCall, NoError)
                   /\ UNCHANGED <<isLoading, resendStatus, inflight, issued>>
              ELSE /\ issued + 2 <= MaxCalls
                   /\ isLoading' = TRUE
                   /\ resendStatus' = NoStatus
                   /\ inflight' = inflight \cup {call}
                   /\ issued' = issued + 1
                   /\ ev' = Event("handleSignupSubmit", call, NoError)
    /\ UNCHANGED hist
    /\ UNCHANGED <<page, step, draftVars, verificationCode, recVars, navigations,
                   apiErrors, lastApiError>>

\* Lines 86-87, 110-112: signup resolved.
SignupResolve(c) ==
    /\ c \in InFlight("signup")
    /\ step' = "verification"
    /\ isLoading' = FALSE
    /\ inflight' = inflight \ {c}
    /\ ev' = Event("SignupResolve", c, NoError)
    /\ histMoved(c)
    /\ UNCHANGED <<page, draftVars, verificationCode, errors, resendStatus, recVars,
                   issued, navigations, apiErrors, lastApiError>>

\* Mutant: a signup rejected with another error is reported through
\* resendStatus as well.
SignupReject_reportsStatus(c, err) ==
    /\ c \in InFlight("signup")
    /\ IF IsUsernameExists(err)
       THEN LET call == Call(issued + 1, "autoResend", c.email, EmptyText,
                             EmptyText, EmptyText)
            IN  /\ errors' = OneError("email",
                               "User already exists. Please verify your email.")
                /\ step' = "verification"
                /\ inflight' = (inflight \ {c}) \cup {call}
                /\ issued' = issued + 1
                /\ noApiError
                /\ histMovedWithResend(c, issued + 1)
                /\ UNCHANGED <<isLoading, resendStatus>>
       ELSE /\ handleApiError(err)
            /\ UNCHANGED hist
            /\ resendStatus' = ResendFailure
            /\ isLoading' = FALSE
            /\ inflight' = inflight \ {c}
            /\ UNCHANGED <<errors, step, issued>>
    /\ ev' = Event("SignupReject", c, err)
    /\ UNCHANGED <<page, draftVars, verificationCode, recVars, navigations>>

\* Mutant: a signup rejected with another error shows the verification form too.
SignupReject_advancesOnAnyError(c, err) ==
    /\ c \in InFlight("signup")
    /\ IF IsUsernameExists(err)
       THEN LET call == Call(issued + 1, "autoResend", c.email, EmptyText,
                             EmptyText, EmptyText)
            IN  /\ errors' = OneError("email",
                               "User already exists. Please verify your email.")
                /\ step' = "verification"
                /\ inflight' = (inflight \ {c}) \cup {call}
                /\ issued' = issued + 1
                /\ noApiError
                /\ histMovedWithResend(c, issued + 1)
                /\ UNCHANGED isLoading
       ELSE /\ handleApiError(err)
            /\ UNCHANGED hist
            /\ step' = "verification"
            /\ isLoading' = FALSE
            /\ inflight' = inflight \ {c}
            /\ UNCHANGED <<errors, issued>>
    /\ ev' = Event("SignupReject", c, err)
    /\ UNCHANGED <<page, draftVars, verificationCode, resendStatus, recVars,
                   navigations>>

\* Mutant: the already-exists path dispatches the resend without setStep.
SignupReject_noStep(c, err) ==
    /\ c \in InFlight("signup")
    /\ IF IsUsernameExists(err)
       THEN LET call == Call(issued + 1, "autoResend", c.email, EmptyText,
                             EmptyText, EmptyText)
            IN  /\ errors' = OneError("email",
                               "User already exists. Please verify your email.")
                /\ inflight' = (inflight \ {c}) \cup {call}
                /\ issued' = issued + 1
                /\ noApiError
                /\ histMovedWithResend(c, issued + 1)
                /\ UNCHANGED <<isLoading, step>>
       ELSE /\ handleApiError(err)
            /\ UNCHANGED hist
            /\ isLoading' = FALSE
            /\ inflight' = inflight \ {c}
            /\ UNCHANGED <<errors, step, issued>>
    /\ ev' = Event("SignupReject", c, err)
    /\ UNCHANGED <<page, draftVars, verificationCode, resendStatus, recVars,
                   navigations>>

\* Mutant: the already-exists path clears isLoading before awaiting the resend.
SignupReject_clearsLoading(c, err) ==
    /\ c \in InFlight("signup")
    /\ IF IsUsernameExists(err)
       THEN LET call == Call(issued + 1, "autoResend", c.email, EmptyText,
                             EmptyText, EmptyText)
            IN  /\ errors' = OneError("email",
                               "User already exists. Please verify your email.")
                /\ step' = "verification"
                /\ inflight' = (inflight \ {c}) \cup {call}
                /\ issued' = issued + 1
                /\ noApiError
                /\ histMovedWithResend(c, issued + 1)
                /\ isLoading' = FALSE
       ELSE /\ handleApiError(err)
            /\ UNCHANGED hist
            /\ isLoading' = FALSE
            /\ inflight' = inflight \ {c}
            /\ UNCHANGED <<errors, step, issued>>
    /\ ev' = Event("SignupReject", c, err)
    /\ UNCHANGED <<page, draftVars, verificationCode, resendStatus, recVars,
                   navigations>>

\* Lines 88-99, 107-112: signup rejected with err.  On the already-exists path
\* the handler dispatches resendCode(email) and stays suspended (isLoading is
\* still true); otherwise it reports the error and ends.
SignupReject(c, err) ==
    /\ c \in InFlight("signup")
    /\ IF IsUsernameExists(err)
       THEN LET call == Call(issued + 1, "autoResend", c.email, EmptyText,
                             EmptyText, EmptyText)
            IN  /\ errors' = OneError("email",
                               "User already exists. Please verify your email.")
                /\ step' = "verification"
                /\ inflight' = (inflight \ {c}) \cup {call}
                /\ issued' = issued + 1
                /\ noApiError
                /\ histMovedWithResend(c, issued + 1)
                /\ UNCHANGED isLoading
       ELSE /\ handleApiError(err)
            /\ UNCHANGED hist
            /\ isLoading' = FALSE
            /\ inflight' = inflight \ {c}
            /\ UNCHANGED <<errors, step, issued>>
    /\ ev' = Event("SignupReject", c, err)
    /\ UNCHANGED <<page, draftVars, verificationCode, resendStatus, recVars,
                   navigations>>

\* Lines 99-103, 110-112: the automatic resend resolved.
AutoResendResolve(c) ==
    /\ c \in InFlight("autoResend")
    /\ resendStatus' = AutoResendSuccess
    /\ isLoading' = FALSE
    /\ inflight' = inflight \ {c}
    /\ ev' = Event("AutoResendResolve", c, NoError)
    /\ histResendSettled(c, AutoResendSuccess)
    /\ UNCHANGED <<page, step, draftVars, verificationCode, errors, recVars, issued,
                   navigations, apiErrors, lastApiError>>

\* Mutant: the rejected automatic resend reports the failure like a manual one.
AutoResendReject_reports(c, err) ==
    /\ c \in InFlight("autoResend")
    /\ resendStatus' = ResendFailure
    /\ isLoading' = FALSE
    /\ inflight' = inflight \ {c}
    /\ ev' = Event("AutoResendReject", c, err)
    /\ histResendSettled(c, NoStatus)
    /\ UNCHANGED <<page, step, draftVars, verificationCode, errors, recVars, issued,
                   navigations, apiErrors, lastApiError>>

\* Mutant: the rejected automatic resend leaves the handler without running
\* the finally block.
AutoResendReject_noFinally(c, err) ==
    /\ c \in InFlight("autoResend")
    /\ inflight' = inflight \ {c}
    /\ ev' = Event("AutoResendReject", c, err)
    /\ histResendSettled(c, NoStatus)
    /\ UNCHANGED <<page, step, draftVars, verificationCode, errors, resendStatus,
                   isLoading, recVars, issued, navigations, apiErrors, lastApiError>>

\* Lines 104-106, 110-112: the automatic resend rejected; the catch is empty.
AutoResendReject(c, err) ==
    /\ c \in InFlight("autoResend")
    /\ isLoading' = FALSE
    /\ inflight' = inflight \ {c}
    /\ ev' = Event("AutoResendReject", c, err)
    /\ histResendSettled(c, NoStatus)
    /\ UNCHANGED <<page, step, draftVars, verificationCode, errors, resendStatus,
                   recVars, issued, navigations, apiErrors, lastApiError>>

-----------------------------------------------------------------------------
(* Signup.tsx: handleVerificationSubmit *)

\* Mutant: a code shorter than six characters is refused like an empty one.
handleVerificationSubmit_minLength ==
    /\ SignupForm("verification")
    /\ ~isLoading
    /\ LET call == Call(issued + 1, "verify", email, verificationCode, EmptyText,
                        EmptyText)
       IN  IF Len(verificationCode) < 6
           THEN /\ errors' = OneError("code", "Verification code is required")
                /\ ev' = Event("handleVerificationSubmit", NoCall, NoError)
                /\ UNCHANGED <<isLoading, inflight, issued>>
           ELSE /\ issued < MaxCalls
                /\ isLoading' = TRUE
                /\ inflight' = inflight \cup {call}
                /\ issued' = issued + 1
                /\ ev' = Event("handleVerificationSubmit", call, NoError)
                /\ UNCHANGED errors
    /\ UNCHANGED hist
    /\ UNCHANGED <<page, step, draftVars, verificationCode, resendStatus, recVars,
                   navigations, apiErrors, lastApiError>>

\* Lines 119-130: require a code, then dispatch verifyCode(email, code).
handleVerificationSubmit ==
    /\ SignupForm("verification")
    /\ ~isLoading
    /\ LET call == Call(issued + 1, "verify", email, verificationCode, EmptyText,
                        EmptyText)
       IN  IF verificationCode = EmptyText
           THEN /\ errors' = OneError("code", "Verification code is required")
                /\ ev' = Event("handleVerificationSubmit", NoCall, NoError)
                /\ UNCHANGED <<isLoading, inflight, issued>>
           ELSE /\ issued < MaxCalls
                /\ isLoading' = TRUE
                /\ inflight' = inflight \cup {call}
                /\ issued' = issued + 1
                /\ ev' = Event("handleVerificationSubmit", call, NoError)
                /\ UNCHANGED errors
    /\ UNCHANGED hist
    /\ UNCHANGED <<page, step, draftVars, verificationCode, resendStatus, recVars,
                   navigations, apiErrors, lastApiError>>

\* Lines 130-131, 135-137: verifyCode resolved.
VerifyResolve(c) ==
    /\ c \in InFlight("verify")
    /\ navigate("/login")
    /\ isLoading' = FALSE
    /\ inflight' = inflight \ {c}
    /\ ev' = Event("VerifyResolve", c, NoError)
    /\ UNCHANGED hist
    /\ UNCHANGED <<step, draftVars, verificationCode, errors, resendStatus, recVars,
                   issued, apiErrors, lastApiError>>

\* Mutant: a rejected verifyCode sends the user back to the signup form.
VerifyReject_backToSignup(c, err) ==
    /\ c \in InFlight("verify")
    /\ handleApiError(err)
    /\ errors' = OneError("code", "Invalid verification code")
    /\ step' = "signup"
    /\ isLoading' = FALSE
    /\ inflight' = inflight \ {c}
    /\ ev' = Event("VerifyReject", c, err)
    /\ UNCHANGED hist
    /\ UNCHANGED <<page, draftVars, verificationCode, resendStatus, recVars,
                   issued, navigations>>

\* Mutant: a rejected verifyCode navigates as well.
VerifyReject_navigates(c, err) ==
    /\ c \in InFlight("verify")
    /\ handleApiError(err)
    /\ navigate("/login")
    /\ errors' = OneError("code", "Invalid verification code")
    /\ isLoading' = FALSE
    /\ inflight' = inflight \ {c}
    /\ ev' = Event("VerifyReject", c, err)
    /\ UNCHANGED hist
    /\ UNCHANGED <<step, draftVars, verificationCode, resendStatus, recVars, issued>>

\* Mutant: a rejected verifyCode merges the code error into the earlier errors.
VerifyReject_mergesErrors(c, err) ==
    /\ c \in InFlight("verify")
    /\ handleApiError(err)
    /\ errors' = OneError("code", "Invalid verification code") @@ errors
    /\ isLoading' = FALSE
    /\ inflight' = inflight \ {c}
    /\ ev' = Event("VerifyReject", c, err)
    /\ UNCHANGED hist
    /\ UNCHANGED <<page, step, draftVars, verificationCode, resendStatus, recVars,
                   issued, navigations>>

\* Lines 132-137: verifyCode rejected with err.
VerifyReject(c, err) ==
    /\ c \in InFlight("verify")
    /\ handleApiError(err)
    /\ errors' = OneError("code", "Invalid verification code")
    /\ isLoading' = FALSE
    /\ inflight' = inflight \ {c}
    /\ ev' = Event("VerifyReject", c, err)
    /\ UNCHANGED hist
    /\ UNCHANGED <<page, step, draftVars, verificationCode, resendStatus, recVars,
                   issued, navigations>>

-----------------------------------------------------------------------------
(* Signup.tsx: handleResendCode *)

\* Lines 144-148: clear the status, then dispatch resendCode(email).  The
\* "Resend Code" button (lines 212-214) has no disabled attribute.
handleResendCode ==
    /\ SignupForm("verification")
    /\ issued < MaxCalls
    /\ LET call == Call(issued + 1, "resend", email, EmptyText, EmptyText, EmptyText)
       IN  /\ resendStatus' = NoStatus
           /\ inflight' = inflight \cup {call}
           /\ issued' = issued + 1
           /\ ev' = Event("handleResendCode", call, NoError)
    /\ histResendStarted(issued + 1)
    /\ UNCHANGED <<page, step, draftVars, verificationCode, errors, isLoading,
                   recVars, navigations, apiErrors, lastApiError>>

\* Lines 148-152: resendCode resolved.
ResendResolve(c) ==
    /\ c \in InFlight("resend")
    /\ resendStatus' = ResendSuccess
    /\ inflight' = inflight \ {c}
    /\ ev' = Event("ResendResolve", c, NoError)
    /\ histResendSettled(c, ResendSuccess)
    /\ UNCHANGED <<page, step, draftVars, verificationCode, errors, isLoading,
                   recVars, issued, navigations, apiErrors, lastApiError>>

\* Mutant: a rejected manual resend is swallowed like the automatic one.
ResendReject_silent(c, err) ==
    /\ c \in InFlight("resend")
    /\ inflight' = inflight \ {c}
    /\ ev' = Event("ResendReject", c, err)
    /\ histResendSettled(c, ResendFailure)
    /\ UNCHANGED <<page, step, draftVars, verificationCode, errors, isLoading,
                   resendStatus, recVars, issued, navigations, apiErrors,
                   lastApiError>>

\* Lines 153-158: resendCode rejected.
ResendReject(c, err) ==
    /\ c \in InFlight("resend")
    /\ resendStatus' = ResendFailure
    /\ inflight' = inflight \ {c}
    /\ ev' = Event("ResendReject", c, err)
    /\ histResendSettled(c, ResendFailure)
    /\ UNCHANGED <<page, step, draftVars, verificationCode, errors, isLoading,
                   recVars, issued, navigations, apiErrors, lastApiError>>

-----------------------------------------------------------------------------
(* Recommendations.tsx *)

\* Lines 74-79 and 86-94: the textarea and the example buttons.
setQuery(v) ==
    /\ page = "recommendations"
    /\ query' = v
    /\ ev' = Event("input", NoCall, NoError)
    /\ UNCHANGED hist
    /\ UNCHANGED <<page, signupVars, recommendationText, recLoading, inflight,
                   issued, navigations, apiErrors, lastApiError>>

\* Mutant: the query is tested for emptiness without trim().
handleGetRecommendations_noTrim ==
    /\ page = "recommendations"
    /\ ~recLoading
    /\ LET call == Call(issued + 1, "getRecommendations", EmptyText, EmptyText,
                        query, recommendationText)
       IN  IF query = EmptyText
           THEN /\ ev' = Event("handleGetRecommendations", NoCall, NoError)
                /\ UNCHANGED <<recommendationText, recLoading, inflight, issued>>
           ELSE /\ issued < MaxCalls
                /\ recLoading' = TRUE
                /\ recommendationText' = EmptyText
                /\ inflight' = inflight \cup {call}
                /\ issued' = issued + 1
                /\ ev' = Event("handleGetRecommendations", call, NoError)
    /\ UNCHANGED hist
    /\ UNCHANGED <<page, signupVars, query, navigations, apiErrors, lastApiError>>

\* Mutant: the fetch is dispatched without clearing the previous text.
handleGetRecommendations_keepsText ==
    /\ page = "recommendations"
    /\ ~recLoading
    /\ LET call == Call(issued + 1, "getRecommendations", EmptyText, EmptyText,
                        query, recommendationText)
       IN  IF Trim(query) = EmptyText
           THEN /\ ev' = Event("handleGetRecommendations", NoCall, NoError)
                /\ UNCHANGED <<recommendationText, recLoading, inflight, issued>>
           ELSE /\ issued < MaxCalls
                /\ recLoading' = TRUE
                /\ inflight' = inflight \cup {call}
                /\ issued' = issued + 1
                /\ ev' = Event("handleGetRecommendations", call, NoError)
                /\ UNCHANGED recommendationText
    /\ UNCHANGED hist
    /\ UNCHANGED <<page, signupVars, query, navigations, apiErrors, lastApiError>>

\* Lines 22-32: reject a blank query with an alert, else clear the text and
\* dispatch getRecommendations(query).  The button is disabled while loading.
handleGetRecommendations ==
    /\ page = "recommendations"
    /\ ~recLoading
    /\ LET call == Call(issued + 1, "getRecommendations", EmptyText, EmptyText,
                        query, recommendationText)
       IN  IF Trim(query) = EmptyText
           THEN /\ ev' = Event("handleGetRecommendations", NoCall, NoError)
                /\ UNCHANGED <<recommendationText, recLoading, inflight, issued>>
           ELSE /\ issued < MaxCalls
                /\ recLoading' = TRUE
                /\ recommendationText' = EmptyText
                /\ inflight' = inflight \cup {call}
                /\ issued' = issued + 1
                /\ ev' = Event("handleGetRecommendations", call, NoError)
    /\ UNCHANGED hist
    /\ UNCHANGED <<page, signupVars, query, navigations, apiErrors, lastApiError>>

\* Lines 32-33, 36-38: getRecommendations resolved with result.recommendations.
GetRecommendationsResolve(c, result) ==
    /\ c \in InFlight("getRecommendations")
    /\ recommendationText' = result
    /\ recLoading' = FALSE
    /\ inflight' = inflight \ {c}
    /\ ev' = Event("GetRecommendationsResolve", c, NoError)
    /\ UNCHANGED hist
    /\ UNCHANGED <<page, signupVars, query, issued, navigations, apiErrors,
                   lastApiError>>

\* Lines 34-38: getRecommendations rejected with err.
GetRecommendationsReject(c, err) ==
    /\ c \in InFlight("getRecommendations")
    /\ handleApiError(err)
    /\ recLoading' = FALSE
    /\ inflight' = inflight \ {c}
    /\ ev' = Event("GetRecommendationsReject", c, err)
    /\ UNCHANGED hist
    /\ UNCHANGED <<page, signupVars, query, recommendationText, issued, navigations>>

-----------------------------------------------------------------------------
(* The system *)

\* The call in flight with the given number, if there is one.
CallOf(i) ==
    IF \E c \in inflight : c.id = i
    THEN CHOOSE c \in inflight : c.id = i
    ELSE NoCall

\* Some call in flight settles: the provider or the backend answers.
SettleSome ==
    \/ \E i \in 1..MaxCalls : SignupResolve(CallOf(i))
    \/ \E i \in 1..MaxCalls, err \in SignupErrors : SignupReject(CallOf(i), err)
    \/ \E i \in 1..MaxCalls : AutoResendResolve(CallOf(i))
    \/ \E i \in 1..MaxCalls, err \in ResendErrors : AutoResendReject(CallOf(i), err)
    \/ \E i \in 1..MaxCalls : VerifyResolve(CallOf(i))
    \/ \E i \in 1..MaxCalls, err \in VerifyErrors : VerifyReject(CallOf(i), err)
    \/ \E i \in 1..MaxCalls : ResendResolve(CallOf(i))
    \/ \E i \in 1..MaxCalls, err \in ResendErrors : ResendReject(CallOf(i), err)
    \/ \E i \in 1..MaxCalls, result \in Results :
           GetRecommendationsResolve(CallOf(i), result)
    \/ \E i \in 1..MaxCalls, err \in RecommendationErrors :
           GetRecommendationsReject(CallOf(i), err)

UserEvent ==
    \/ \E v \in Names : setName(v)
    \/ \E v \in Emails : setEmail(v)
    \/ \E v \in Passwords : setPassword(v)
    \/ \E v \in Passwords : setConfirmPassword(v)
    \/ \E v \in Codes : setVerificationCode(v)
    \/ LinkToLogin
    \/ handleSignupSubmit
    \/ handleVerificationSubmit
    \/ handleResendCode
    \/ \E v \in Queries : setQuery(v)
    \/ handleGetRecommendations

Next ==
    \/ UserEvent
    \/ SettleSome

Spec == Init /\ [][Next]_vars

\* Every dispatched network call eventually resolves or rejects: a call stays
\* in flight until it settles, so while any is in flight one eventually does.
LiveSpec == Spec /\ WF_vars(SettleSome)

-----------------------------------------------------------------------------
(* Claims *)

ExistsMessage == "User already exists. Please verify your email."

InvalidCodeError == OneError("code", "Invalid verification code")

\* Some field of the draft fails its validation rule.
DraftFails(n, e, p, c) ==
    \/ ~validateRequired(n)
    \/ ~validateRequired(e)
    \/ ~validateEmail(e)
    \/ ~validateRequired(p)
    \/ ~validatePassword(p)
    \/ c # p

\* The calls of the signup / verification controller.
ControllerKinds == {"signup", "verify", "autoResend", "resend"}

\* C1: a signup submit of a draft in which some field fails its rule leaves a
\* non-empty errors map, dispatches no call, keeps step = signup and leaves
\* isLoading false.
C1_InvalidDraftBlocked ==
    [][(ev'.op = "handleSignupSubmit"
          /\ DraftFails(name, email, password, confirmPassword))
       => /\ DOMAIN errors' # {}
          /\ inflight' = inflight
          /\ issued' = issued
          /\ ev'.call = NoCall
          /\ step' = "signup"
          /\ isLoading' = FALSE]_vars

\* A submit has just been refused for a draft whose only fault is the
\* confirmation.
C1_Witness ==
    /\ ev.op = "handleSignupSubmit"
    /\ ev.call = NoCall
    /\ DraftFails(name, email, password, confirmPassword)
    /\ DOMAIN errors = {"confirmPassword"}
    /\ inflight = {}

\* C2: on UsernameExistsException the flow is at step = verification with the
\* email error set from the moment the automatic resend is in flight, and the
\* step stays verification when that resend resolves or rejects.
C2_ExistsPath ==
    /\ [](InFlight("autoResend") # {}
            => /\ step = "verification"
               /\ "email" \in DOMAIN errors
               /\ errors["email"] = ExistsMessage)
    /\ [][(ev'.op = "SignupReject" /\ IsUsernameExists(ev'.err))
            => /\ step' = "verification"
               /\ errors' = OneError("email", ExistsMessage)
               /\ \E c \in inflight' : c.kind = "autoResend"]_vars
    /\ [][ev'.op \in {"AutoResendResolve", "AutoResendReject"}
            => step' = "verification"]_vars

\* The automatic resend has just failed and the verification step is shown
\* with the email error.
C2_Witness ==
    /\ ev.op = "AutoResendReject"
    /\ step = "verification"
    /\ errors = OneError("email", ExistsMessage)

\* C3: the completion of a user-triggered resend sets resendStatus: success
\* when the call resolved, error when it rejected.
C3_ManualResendReports ==
    [][/\ ev'.op = "ResendResolve" => resendStatus' = ResendSuccess
       /\ ev'.op = "ResendReject" => resendStatus' = ResendFailure
       /\ ev'.op \in {"ResendResolve", "ResendReject"} => resendStatus' # NoStatus]_vars

\* A user-triggered resend has just been rejected and the error status shows.
C3_Witness == ev.op = "ResendReject" /\ resendStatus.type = "error"

\* C4: a failing automatic resend changes neither resendStatus nor errors and
\* does not invoke the generic error handler.
C4_AutoResendSilent ==
    [][ev'.op = "AutoResendReject"
       => /\ resendStatus' = resendStatus
          /\ errors' = errors
          /\ apiErrors' = apiErrors
          /\ lastApiError' = lastApiError]_vars

\* The automatic resend has just failed: no status shows and the error
\* handler has never run.
C4_Witness ==
    /\ ev.op = "AutoResendReject"
    /\ resendStatus = NoStatus
    /\ apiErrors = 0
    /\ errors = OneError("email", ExistsMessage)

\* C5: with every dispatched call eventually settling, a loading flag that a
\* signup submit, a verification submit or a recommendation fetch has set is
\* eventually cleared again, on every path.
C5_LoadingReleased ==
    /\ isLoading ~> ~isLoading
    /\ recLoading ~> ~recLoading

\* The already-exists path has ended with a failed automatic resend and the
\* flag is clear.
C5_Witness == ev.op = "AutoResendReject" /\ ~isLoading

\* C6 as stated: while any call of the signup / verification controller is in
\* flight (a user-triggered resend included), isLoading is true.
C6_AnyCallHoldsLoading ==
    (\E c \in inflight : c.kind \in ControllerKinds) => isLoading

\* C6 amended: while a signup call, a verifyCode call or the automatic resend
\* is in flight, isLoading is true; a user-triggered resend does not hold it.
C6_SubmitCallsHoldLoading ==
    (\E c \in inflight : c.kind \in {"signup", "verify", "autoResend"}) => isLoading

\* A verifyCode call is in flight, with the flag set, next to a user-triggered
\* resend.
C6_Witness ==
    /\ InFlight("verify") # {}
    /\ InFlight("resend") # {}
    /\ isLoading

\* C7: no two signup calls, no two verifyCode calls, no two resendCode calls
\* (automatic or user-triggered) and no two getRecommendations calls are in
\* flight at the same time.
C7_OneCallPerAction ==
    /\ Cardinality(InFlight("signup")) <= 1
    /\ Cardinality(InFlight("verify")) <= 1
    /\ Cardinality(InFlight("resend") \cup InFlight("autoResend")) <= 1
    /\ Cardinality(InFlight("getRecommendations")) <= 1

\* C8 as stated: after a failed fetch the text equals the text that was shown
\* before the request was submitted.
C8_PreviousResultKept ==
    ev.op = "GetRecommendationsReject" => recommendationText = ev.call.prevText

\* C8 amended: a failed fetch leaves the text as the submit left it, which is
\* empty, hands the error to the shared handler and dispatches no further call.
C8_FailureLeavesClearedText ==
    [][ev'.op = "GetRecommendationsReject"
       => /\ recommendationText' = recommendationText
          /\ recommendationText' = EmptyText
          /\ apiErrors' = apiErrors + 1
          /\ lastApiError' = ev'.err
          /\ issued' = issued
          /\ inflight' = inflight \ {ev'.call}]_vars

\* A fetch submitted while a result was shown has just failed, and the text
\* is empty.
C8_Witness ==
    /\ ev.op = "GetRecommendationsReject"
    /\ ev.call.prevText # EmptyText
    /\ recommendationText = EmptyText
    /\ lastApiError = ev.err

\* C9: navigate('/login') is invoked by a successful verifyCode, once, by
\* nothing else, never by a rejected verifyCode, and never a second time.
C9_NavigatesOnce ==
    /\ [](Len(navigations) <= 1)
    /\ [][ev'.op = "VerifyResolve" => navigations' = Append(navigations, "/login")]_vars
    /\ [][navigations' # navigations => ev'.op = "VerifyResolve"]_vars
    /\ [][ev'.op = "VerifyReject" => navigations' = navigations]_vars

\* verifyCode has just resolved and there is the one navigation to /login.
C9_Witness == ev.op = "VerifyResolve" /\ navigations = <<"/login">>

\* C10: a rejected verifyCode keeps step = verification, sets errors to
\* exactly the invalid-code error, does not navigate and re-enables the
\* submit control of the verification form.
C10_RejectedVerify ==
    [][ev'.op = "VerifyReject"
       => /\ step' = "verification"
          /\ errors' = InvalidCodeError
          /\ navigations' = navigations
          /\ page' = "signup"
          /\ isLoading' = FALSE]_vars

\* verifyCode has just been rejected on the already-exists path: the email
\* error that was shown is gone.
C10_Witness ==
    /\ ev.op = "VerifyReject"
    /\ resendStatus = AutoResendSuccess
    /\ errors = InvalidCodeError
    /\ SignupForm("verification")
    /\ ~isLoading

\* The fields of the draft whose rule fails.
FailingFields(n, e, p, c) ==
    {f \in {"name", "email", "password", "confirmPassword"} :
        \/ f = "name" /\ ~validateRequired(n)
        \/ f = "email" /\ (~validateRequired(e) \/ ~validateEmail(e))
        \/ f = "password" /\ (~validateRequired(p) \/ ~validatePassword(p))
        \/ f = "confirmPassword" /\ c # p}

\* The draft {name: '', email: 'a@b.com', password: 'Abc12345',
\* confirmPassword: 'Abc12345'}.
IsExampleDraft(n, e, p, c) ==
    /\ n = EmptyText
    /\ e = <<"a", "@", "b", ".", "c", "o", "m">>
    /\ p = <<"A", "b", "c", "1", "2", "3", "4", "5">>
    /\ c = <<"A", "b", "c", "1", "2", "3", "4", "5">>

\* C11: after a refused signup submit the errors map has an entry for exactly
\* the fields whose rule fails, all at once; a confirmPassword that differs
\* from the password is flagged whatever the password; the example draft with
\* the empty name is refused with exactly {name: 'Name is required'}.
C11_ErrorsForExactlyFailingFields ==
    [][ev'.op = "handleSignupSubmit"
       => /\ ev'.call = NoCall
             => DOMAIN errors' = FailingFields(name, email, password, confirmPassword)
          /\ confirmPassword # password
             => /\ "confirmPassword" \in DOMAIN errors'
                /\ errors'["confirmPassword"] = "Passwords do not match"
          /\ IsExampleDraft(name, email, password, confirmPassword)
             => /\ ev'.call = NoCall
                /\ errors' = OneError("name", "Name is required")]_vars

\* The example draft has just been submitted and refused for its name alone.
C11_Witness ==
    /\ ev.op = "handleSignupSubmit"
    /\ ev.call = NoCall
    /\ IsExampleDraft(name, email, password, confirmPassword)
    /\ errors = OneError("name", "Name is required")

\* C12: a signup rejected with anything but a UsernameExistsException hands
\* that value unchanged to the generic error handler, keeps step = signup,
\* dispatches no resendCode, leaves errors and resendStatus as they were and
\* re-enables the submit control.
C12_OtherSignupError ==
    [][(ev'.op = "SignupReject" /\ ev'.err # ExistsError)
       => /\ apiErrors' = apiErrors + 1
          /\ lastApiError' = ev'.err
          /\ step = "signup" /\ step' = "signup"
          /\ issued' = issued
          /\ inflight' = inflight \ {ev'.call}
          /\ errors' = errors
          /\ resendStatus' = resendStatus
          /\ isLoading' = FALSE]_vars

\* A signup has just been rejected with an object that has no name: it went
\* to the error handler and the signup form can be submitted again.
C12_Witness ==
    /\ ev.op = "SignupReject"
    /\ ev.err = NamelessError
    /\ lastApiError = NamelessError
    /\ SignupForm("signup")
    /\ ~isLoading
    /\ inflight = {}

\* The text is empty or consists of whitespace only.
IsBlank(t) == \A k \in 1..Len(t) : t[k] \in Whitespace

\* C13: submitting an empty or whitespace-only query dispatches no
\* getRecommendations call and leaves the loading flag and the text unchanged.
C13_BlankQueryBlocked ==
    [][(ev'.op = "handleGetRecommendations" /\ IsBlank(query))
       => /\ ev'.call = NoCall
          /\ inflight' = inflight
          /\ issued' = issued
          /\ recLoading' = recLoading
          /\ recommendationText' = recommendationText]_vars

\* A whitespace-only query has just been refused while a result was shown.
C13_Witness ==
    /\ ev.op = "handleGetRecommendations"
    /\ ev.call = NoCall
    /\ query = <<" ", " ">>
    /\ recommendationText # EmptyText
    /\ ~recLoading
    /\ inflight = {}

\* C14: a verification submit with an empty code sets errors to exactly the
\* code-required error, dispatches no call, leaves isLoading false and keeps
\* step = verification; with any non-empty code it dispatches verifyCode with
\* that code.
C14_CodeRequiredOnly ==
    [][ev'.op = "handleVerificationSubmit"
       => IF verificationCode = EmptyText
          THEN /\ errors' = OneError("code", "Verification code is required")
               /\ ev'.call = NoCall
               /\ inflight' = inflight
               /\ issued' = issued
               /\ isLoading' = FALSE
               /\ step' = "verification"
          ELSE /\ ev'.call.kind = "verify"
               /\ ev'.call.code = verificationCode
               /\ inflight' = inflight \cup {ev'.call}
               /\ ev'.call \notin inflight]_vars

\* An empty code has just been refused on the verification form.
C14_Witness ==
    /\ ev.op = "handleVerificationSubmit"
    /\ ev.call = NoCall
    /\ verificationCode = EmptyText
    /\ errors = OneError("code", "Verification code is required")
    /\ step = "verification"
    /\ ~isLoading

\* C15: in every state in which a signup submit has just run, refused by the
\* validation or dispatching the signup call, resendStatus is null; so it is
\* while a signup call is in flight.
C15_StatusNullOnSignupSubmit ==
    /\ ev.op = "handleSignupSubmit" => resendStatus = NoStatus
    /\ InFlight("signup") # {} => resendStatus = NoStatus

\* A second signup has just been dispatched, after a first one was rejected.
C15_Witness ==
    /\ ev.op = "handleSignupSubmit"
    /\ ev.call.kind = "signup"
    /\ ev.call \in inflight
    /\ apiErrors = 1
    /\ resendStatus = NoStatus

\* C16: the step changes from signup to verification only when a signup call
\* in flight resolves or is rejected with UsernameExistsException, and a
\* signup call is dispatched only by a signup submit of a draft that passes
\* all four rules.
C16_VerificationOnlyViaSignup ==
    /\ [][(step = "signup" /\ step' = "verification")
          => /\ ev'.call.kind = "signup"
             /\ ev'.call \in inflight
             /\ \/ ev'.op = "SignupResolve"
                \/ ev'.op = "SignupReject" /\ ev'.err = ExistsError]_vars
    /\ [][(\E c \in inflight' \ inflight : c.kind = "signup")
          => /\ ev'.op = "handleSignupSubmit"
             /\ ~DraftFails(name, email, password, confirmPassword)
             /\ ev'.call.email = email]_vars

\* A signup call has just resolved and the verification form is shown.
C16_Witness ==
    /\ ev.op = "SignupResolve"
    /\ step = "verification"
    /\ errors = NoErrors

\* C17: once step = verification it stays verification under every event.
C17_OneDirectional ==
    [][step = "verification" => step' = "verification"]_vars

\* A user-triggered resend has just resolved on the verification form.
C17_Witness ==
    /\ step = "verification"
    /\ ev.op = "ResendResolve"
    /\ resendStatus = ResendSuccess

\* C18: the email handed to every verifyCode call and every resendCode call
\* is the email that was handed to the signup call which moved the flow to
\* the verification step.
C18_EmailOfSignup ==
    \A c \in inflight :
        c.kind \in {"verify", "resend", "autoResend"} => c.email = hist.signupEmail

\* C19: once no resendCode call is in flight, resendStatus is what the
\* resendCode call dispatched last reports (nothing, for a failed automatic
\* resend), and the error status of a user-triggered resend is never replaced
\* by the success message of the automatic resend.
C19_StatusOfLatestResend ==
    /\ []((InFlight("resend") \cup InFlight("autoResend") = {} /\ hist.resendId # 0)
            => resendStatus = hist.resendShows)
    /\ [][resendStatus = ResendFailure => resendStatus' # AutoResendSuccess]_vars

====
